---- MODULE Spec2Model ----
(***************************************************************************)
(* The Beta-PERT distribution class PERT of src/src/pert/PERT.py.          *)
(*                                                                         *)
(* Numbers.  A Python float is modelled as an IEEE value with exact        *)
(* rational arithmetic on the finite ones: [k, n, d] with k = "fin" for    *)
(* the rational n/d (d > 0, lowest terms), k = "inf" for +/-infinity (n    *)
(* the sign) and k = "nan".  Rounding of finite results is not modelled.   *)
(* A numpy array is a non-empty sequence of such numbers; a 0-d array (a   *)
(* Python scalar through np.asarray) is a sequence of length 1, which      *)
(* broadcasts exactly as a scalar does.  The empty sequence stands for an  *)
(* attribute that has not been assigned.                                   *)
(***************************************************************************)
EXTENDS Integers, Sequences, FiniteSets, TLC

VARIABLES
    args,   \* the arguments of the constructor call
    self,   \* the object __init__ works on: its attributes
    dist,   \* TRUE when the constructor returned and the caller holds self
    err,    \* the message of the exception the constructor raised, "" if none
    call,   \* the method called on the instance and its argument
    ret     \* what that method returned, until the caller drops it

vars == <<args, self, dist, err, call, ret>>

(***************************************************************************)
(* Bounds of the model.                                                    *)
(***************************************************************************)
MaxVal == 3        \* scalar arguments range over 0..MaxVal and the non-finite values
MaxLen == 3        \* array arguments have 2..MaxLen elements
MaxArr == 2        \* the elements of array arguments range over 0..MaxArr
MaxLamb == 4       \* lamb ranges over -1..MaxLamb and the non-finite values
MaxWide == 10      \* scalar arguments of the scalar-only specification: 0..MaxWide
MaxSize == 2       \* rvs draws 1..MaxSize variates
MaxSeed == 2       \* random_state ranges over 0..MaxSeed, or is None

(***************************************************************************)
(* IEEE numbers with exact finite arithmetic.                              *)
(***************************************************************************)
Abs(i) == IF i < 0 THEN -i ELSE i

Sgn(i) == IF i < 0 THEN -1 ELSE IF i = 0 THEN 0 ELSE 1

RECURSIVE GCD(_, _)
GCD(m, n) == IF n = 0 THEN m ELSE GCD(n, m % n)

Norm(n, d) ==
    LET g == GCD(Abs(n), Abs(d))
        s == IF d < 0 THEN -1 ELSE 1
    IN  [k |-> "fin", n |-> (s * n) \div g, d |-> (s * d) \div g]

Num(i) == [k |-> "fin", n |-> i, d |-> 1]

NaN == [k |-> "nan", n |-> 0, d |-> 1]

Inf(s) == [k |-> "inf", n |-> s, d |-> 1]

PInf == Inf(1)

NInf == Inf(-1)

IsFinite(x) == x.k = "fin"

IsNaN(x) == x.k = "nan"

Neg(x) == [x EXCEPT !.n = -x.n]

Add(x, y) ==
    IF IsNaN(x) \/ IsNaN(y) THEN NaN
    ELSE IF x.k = "inf" THEN (IF y.k = "inf" /\ y.n # x.n THEN NaN ELSE x)
    ELSE IF y.k = "inf" THEN y
    ELSE LET g == GCD(x.d, y.d)
         IN  Norm(x.n * (y.d \div g) + y.n * (x.d \div g), (x.d \div g) * y.d)

Sub(x, y) == Add(x, Neg(y))

Mul(x, y) ==
    IF IsNaN(x) \/ IsNaN(y) THEN NaN
    ELSE IF x.k = "inf" \/ y.k = "inf"
         THEN (IF x.n = 0 \/ y.n = 0 THEN NaN ELSE Inf(Sgn(x.n) * Sgn(y.n)))
    ELSE LET g1 == GCD(Abs(x.n), y.d)
             g2 == GCD(Abs(y.n), x.d)
         IN  Norm((x.n \div g1) * (y.n \div g2), (x.d \div g2) * (y.d \div g1))

\* the reciprocal of a finite non-zero number
Recip(y) == IF y.n < 0 THEN [y EXCEPT !.n = -y.d, !.d = -y.n]
            ELSE [y EXCEPT !.n = y.d, !.d = y.n]

Div(x, y) ==
    IF IsNaN(x) \/ IsNaN(y) THEN NaN
    ELSE IF x.k = "inf"
         THEN (IF y.k = "inf" THEN NaN
               ELSE Inf(x.n * (IF y.n < 0 THEN -1 ELSE 1)))
    ELSE IF y.k = "inf" THEN Num(0)
    ELSE IF y.n = 0 THEN (IF x.n = 0 THEN NaN ELSE Inf(Sgn(x.n)))
    ELSE Mul(x, Recip(y))

\* x < y: false as soon as one side is NaN
Lt(x, y) ==
    IF IsNaN(x) \/ IsNaN(y) THEN FALSE
    ELSE IF x.k = "inf" THEN x.n < 0 /\ ~(y.k = "inf" /\ y.n < 0)
    ELSE IF y.k = "inf" THEN y.n > 0
    ELSE Add(x, Neg(y)).n < 0

\* x == y: false as soon as one side is NaN
EqN(x, y) == ~IsNaN(x) /\ ~IsNaN(y) /\ x = y

Le(x, y) == Lt(x, y) \/ EqN(x, y)

RECURSIVE Pow(_, _)
Pow(x, e) == IF e = 0 THEN Num(1) ELSE Mul(x, Pow(x, e - 1))

(***************************************************************************)
(* Values c * sqrt(r): np.sqrt and what build multiplies and divides it    *)
(* with.  A finite one is kept as its sign and its square, which is exact. *)
(***************************************************************************)
SFin(s, q) == [k |-> "fin", sgn |-> s, sq |-> q]

SNaN == [k |-> "nan", sgn |-> 0, sq |-> Num(0)]

SInf(s) == [k |-> "inf", sgn |-> s, sq |-> Num(0)]

FromNum(x) ==
    IF IsNaN(x) THEN SNaN
    ELSE IF x.k = "inf" THEN SInf(x.n)
    ELSE SFin(Sgn(x.n), Mul(x, x))

\* np.sqrt: NaN (and a warning) for a negative argument
SqrtN(x) ==
    IF IsNaN(x) \/ x.n < 0 THEN SNaN
    ELSE IF x.k = "inf" THEN SInf(1)
    ELSE SFin(Sgn(x.n), x)

SMul(x, y) ==
    IF x.k = "nan" \/ y.k = "nan" THEN SNaN
    ELSE IF x.k = "inf" \/ y.k = "inf"
         THEN (IF x.sgn = 0 \/ y.sgn = 0 THEN SNaN ELSE SInf(x.sgn * y.sgn))
    ELSE SFin(x.sgn * y.sgn, Mul(x.sq, y.sq))

SDiv(x, y) ==
    IF x.k = "nan" \/ y.k = "nan" THEN SNaN
    ELSE IF x.k = "inf"
         THEN (IF y.k = "inf" THEN SNaN
               ELSE SInf(x.sgn * (IF y.sgn < 0 THEN -1 ELSE 1)))
    ELSE IF y.k = "inf" THEN SFin(0, Num(0))
    ELSE IF y.sgn = 0 THEN (IF x.sgn = 0 THEN SNaN ELSE SInf(x.sgn))
    ELSE SFin(x.sgn * y.sgn, Div(x.sq, y.sq))

(***************************************************************************)
(* numpy arrays and broadcasting.                                          *)
(***************************************************************************)
Unset == << >>

IsSet(x) == Len(x) > 0

\* two shapes broadcast when they are equal or one of them is 1
Compatible(x, y) == Len(x) = Len(y) \/ Len(x) = 1 \/ Len(y) = 1

BLen(x, y) == IF Len(x) = 1 THEN Len(y) ELSE Len(x)

At(x, i) == IF Len(x) = 1 THEN x[1] ELSE x[i]

\* np.any of an elementwise comparison
AnyLt(x, y) == \E i \in 1..BLen(x, y) : Lt(At(x, i), At(y, i))

AnyEq(x, y) == \E i \in 1..BLen(x, y) : EqN(At(x, i), At(y, i))

AAdd(x, y) == [i \in 1..BLen(x, y) |-> Add(At(x, i), At(y, i))]

ASub(x, y) == [i \in 1..BLen(x, y) |-> Sub(At(x, i), At(y, i))]

AMul(x, y) == [i \in 1..BLen(x, y) |-> Mul(At(x, i), At(y, i))]

ADiv(x, y) == [i \in 1..BLen(x, y) |-> Div(At(x, i), At(y, i))]

Scalar(x) == <<x>>

(***************************************************************************)
(* PERT.__init__ and PERT.build.                                           *)
(***************************************************************************)
DefaultLamb == 4

MsgLamb == "lamb parameter should be greater than 0."

MsgMin == "min_val parameter should be lower than ml_val."

MsgMax == "ml_val parameter should be lower than max_val."

MsgDiff == "min_val, ml_val and max_val parameter should be different."

\* numpy's ValueError for operands whose shapes do not broadcast
MsgBroadcast == "operands could not be broadcast together"

\* the object as __init__ leaves it after its first four assignments
Fresh(min_val, ml_val, max_val, lamb) ==
    [a |-> min_val, b |-> ml_val, c |-> max_val, lamb |-> lamb,
     alpha |-> Unset, beta |-> Unset, mean |-> Unset, var |-> Unset,
     skew |-> Unset, kurt |-> Unset]

\* np.all of an elementwise comparison
AllLt(x, y) == \A i \in 1..BLen(x, y) : Lt(At(x, i), At(y, i))

\* CheckParams with the ordering checks reduced by np.all instead of np.any
CheckParamsAll(o) ==
    IF Le(o.lamb, Num(0)) THEN MsgLamb
    ELSE IF ~Compatible(o.b, o.a) THEN MsgBroadcast
    ELSE IF AllLt(o.b, o.a) THEN MsgMin
    ELSE IF ~Compatible(o.c, o.b) THEN MsgBroadcast
    ELSE IF AllLt(o.c, o.b) THEN MsgMax
    ELSE IF AnyEq(o.a, o.b) \/ AnyEq(o.b, o.c) THEN MsgDiff
    ELSE ""

\* the checks of __init__, in the order of the code: the message of the
\* first exception raised, "" when all pass.  Comparing arrays whose shapes
\* do not broadcast raises inside the comparison itself.
CheckParams(o) ==
    IF Le(o.lamb, Num(0)) THEN MsgLamb
    ELSE IF ~Compatible(o.b, o.a) THEN MsgBroadcast
    ELSE IF AnyLt(o.b, o.a) THEN MsgMin
    ELSE IF ~Compatible(o.c, o.b) THEN MsgBroadcast
    ELSE IF AnyLt(o.c, o.b) THEN MsgMax
    ELSE IF AnyEq(o.a, o.b) \/ AnyEq(o.b, o.c) THEN MsgDiff
    ELSE ""

\* the property range: c - a
range(o) == ASub(o.c, o.a)

\* alphaOf without the leading 1 +
alphaOfNoOne(o) == AMul(Scalar(o.lamb), ADiv(ASub(o.b, o.a), ASub(o.c, o.a)))

alphaOf(o) ==
    AAdd(Scalar(Num(1)),
         AMul(Scalar(o.lamb), ADiv(ASub(o.b, o.a), ASub(o.c, o.a))))

betaOf(o) ==
    AAdd(Scalar(Num(1)),
         AMul(Scalar(o.lamb), ADiv(ASub(o.c, o.b), ASub(o.c, o.a))))

meanOf(o) ==
    ADiv(AAdd(AAdd(o.a, AMul(Scalar(o.lamb), o.b)), o.c),
         Scalar(Add(Num(2), o.lamb)))

\* varOf dividing by lamb + 2
varOfLamb2(o) ==
    ADiv(AMul(ASub(o.mean, o.a), ASub(o.c, o.mean)),
         Scalar(Add(o.lamb, Num(2))))

varOf(o) ==
    ADiv(AMul(ASub(o.mean, o.a), ASub(o.c, o.mean)),
         Scalar(Add(o.lamb, Num(3))))

skewElem(al, be) ==
    SDiv(SMul(FromNum(Mul(Num(2), Sub(be, al))),
              SqrtN(Add(Add(al, be), Num(1)))),
         SMul(FromNum(Add(Add(al, be), Num(2))),
              SqrtN(Mul(al, be))))

skewOf(o) ==
    [i \in 1..BLen(o.alpha, o.beta) |-> skewElem(At(o.alpha, i), At(o.beta, i))]

kurtElem(lamb, al, be) ==
    LET s == Add(al, be)
        d == Sub(al, be)
        p == Mul(al, be)
    IN  Div(Mul(Add(lamb, Num(2)),
                Add(Mul(Mul(d, d), Add(s, Num(1))),
                    Mul(p, Add(s, Num(2))))),
            Mul(Mul(p, Add(s, Num(2))), Add(s, Num(3))))

kurtOf(o) ==
    [i \in 1..BLen(o.alpha, o.beta) |->
        kurtElem(o.lamb, At(o.alpha, i), At(o.beta, i))]

\* build that swallows the broadcasting error and returns
buildSwallow(o) ==
    IF ~Compatible(o.c, o.a) THEN [obj |-> o, err |-> ""]
    ELSE LET o1 == [o EXCEPT !.alpha = alphaOf(o)]
             o2 == [o1 EXCEPT !.beta = betaOf(o1)]
             o3 == [o2 EXCEPT !.mean = meanOf(o2)]
             o4 == [o3 EXCEPT !.var = varOf(o3)]
             o5 == [o4 EXCEPT !.skew = skewOf(o4)]
             o6 == [o5 EXCEPT !.kurt = kurtOf(o5)]
         IN  [obj |-> o6, err |-> ""]

\* build without its last assignment
buildNoKurt(o) ==
    IF ~Compatible(o.c, o.a) THEN [obj |-> o, err |-> MsgBroadcast]
    ELSE LET o1 == [o EXCEPT !.alpha = alphaOf(o)]
             o2 == [o1 EXCEPT !.beta = betaOf(o1)]
             o3 == [o2 EXCEPT !.mean = meanOf(o2)]
             o4 == [o3 EXCEPT !.var = varOf(o3)]
             o5 == [o4 EXCEPT !.skew = skewOf(o4)]
         IN  [obj |-> o5, err |-> ""]

\* build: the six assignments in order.  The first one evaluates c - a and
\* raises when the shapes of c and a do not broadcast; after it every
\* operand has a shape already combined there.
build(o) ==
    IF ~Compatible(o.c, o.a) THEN [obj |-> o, err |-> MsgBroadcast]
    ELSE LET o1 == [o EXCEPT !.alpha = alphaOf(o)]
             o2 == [o1 EXCEPT !.beta = betaOf(o1)]
             o3 == [o2 EXCEPT !.mean = meanOf(o2)]
             o4 == [o3 EXCEPT !.var = varOf(o3)]
             o5 == [o4 EXCEPT !.skew = skewOf(o4)]
             o6 == [o5 EXCEPT !.kurt = kurtOf(o5)]
         IN  [obj |-> o6, err |-> ""]

\* __init__: store the arguments, check them, build
init(min_val, ml_val, max_val, lamb) ==
    LET o == Fresh(min_val, ml_val, max_val, lamb)
        e == CheckParams(o)
    IN  IF e # "" THEN [obj |-> o, err |-> e] ELSE build(o)

(***************************************************************************)
(* The arguments the model draws.                                          *)
(***************************************************************************)
NonFinite == {NaN, PInf, NInf}

Scalars == {Scalar(Num(v)) : v \in 0..MaxVal} \cup {Scalar(x) : x \in NonFinite}

\* array arguments: every array of two elements, and the constant arrays
\* of up to MaxLen elements
Arrays ==
    [1..2 -> {Num(v) : v \in 0..MaxArr}] \cup
    {[i \in 1..n |-> Num(v)] : n \in 2..MaxLen, v \in 0..MaxArr}

ArgVals == Scalars \cup Arrays

LambVals == {Num(l) : l \in -1..MaxLamb} \cup NonFinite \cup {Num(DefaultLamb)}

NoCall == [op |-> "", arg |-> NaN]

NoArgs == Fresh(Unset, Unset, Unset, NaN)

Init ==
    /\ args = NoArgs
    /\ self = NoArgs
    /\ dist = FALSE
    /\ err = ""
    /\ call = NoCall
    /\ ret = Unset

\* dist = PERT(min_val, ml_val, max_val, lamb)
ConstructFrom(Vals, Lambs) ==
    /\ args = NoArgs
    /\ \E min_val \in Vals, ml_val \in Vals, max_val \in Vals, lamb \in Lambs :
          LET r == init(min_val, ml_val, max_val, lamb)
          IN  /\ args' = Fresh(min_val, ml_val, max_val, lamb)
              /\ self' = r.obj
              /\ err' = r.err
              /\ dist' = (r.err = "")
    /\ UNCHANGED <<call, ret>>

\* PERT(min_val, ml_val, max_val, lamb=...) on scalars
Construct == ConstructFrom(Scalars, LambVals)

\* PERT(min_val, ml_val, max_val) on scalars and arrays, lamb left to its default
ConstructDefault == ConstructFrom(ArgVals, {Num(DefaultLamb)})

(***************************************************************************)
(* scipy.stats.beta and scipy.stats.norm, as far as the methods use them.  *)
(* The Beta functions are computed exactly for integer shape parameters,   *)
(* where they are polynomials in x; the methods that call them are         *)
(* modelled on the instances whose alpha and beta are integers.            *)
(***************************************************************************)
RECURSIVE Fact(_)
Fact(n) == IF n <= 0 THEN 1 ELSE n * Fact(n - 1)

Binom(n, j) == Fact(n) \div (Fact(j) * Fact(n - j))

RECURSIVE SumSeq(_)
SumSeq(s) == IF s = << >> THEN Num(0) ELSE Add(Head(s), SumSeq(Tail(s)))

IsIntShape(x) == IsFinite(x) /\ x.d = 1 /\ x.n >= 1

\* the density of Beta(al, be): zero outside [0, 1]
BetaDensity(x, al, be) ==
    IF IsNaN(x) THEN NaN
    ELSE IF Lt(x, Num(0)) \/ Lt(Num(1), x) THEN Num(0)
    ELSE Mul(Num(Fact(al.n + be.n - 1) \div (Fact(al.n - 1) * Fact(be.n - 1))),
             Mul(Pow(x, al.n - 1), Pow(Sub(Num(1), x), be.n - 1)))

\* the regularized incomplete Beta function I_x(al, be)
BetaIncomplete(x, al, be) ==
    IF IsNaN(x) THEN NaN
    ELSE IF Le(x, Num(0)) THEN Num(0)
    ELSE IF Le(Num(1), x) THEN Num(1)
    ELSE LET n == al.n + be.n - 1
             Term(j) == Mul(Num(Binom(n, j)),
                            Mul(Pow(x, j), Pow(Sub(Num(1), x), n - j)))
         IN  SumSeq([k \in 1..(n - al.n + 1) |-> Term(al.n + k - 1)])

\* the points of [0, 1] a quantile is located between
UnitGrid == UNION {{Norm(k, den) : k \in 0..den} : den \in 1..MaxVal}

\* the integer shape parameters the tables below cover
MaxShape == MaxLamb + 2

\* the two functions above at the grid points, computed once
GridPDF == [al \in 1..MaxShape, be \in 1..MaxShape |->
               [u \in UnitGrid |-> BetaDensity(u, Num(al), Num(be))]]

GridCDF == [al \in 1..MaxShape, be \in 1..MaxShape |->
               [u \in UnitGrid |-> BetaIncomplete(u, Num(al), Num(be))]]

OnGrid(x, al, be) == x \in UnitGrid /\ al.n <= MaxShape /\ be.n <= MaxShape

\* beta_dist.pdf
BetaPDF(x, al, be) ==
    IF OnGrid(x, al, be) THEN GridPDF[al.n, be.n][x] ELSE BetaDensity(x, al, be)

\* beta_dist.cdf
BetaCDF(x, al, be) ==
    IF OnGrid(x, al, be) THEN GridCDF[al.n, be.n][x] ELSE BetaIncomplete(x, al, be)

\* beta_dist.sf
BetaSF(x, al, be) == Sub(Num(1), BetaCDF(x, al, be))

\* the natural logarithm, kept as a term: log(x) is [log |-> x]
LogN(x) == [log |-> x]

MaxOf(S) == CHOOSE u \in S : \A v \in S : Le(v, u)

MinOf(S) == CHOOSE u \in S : \A v \in S : Le(u, v)

RECURSIVE Sorted(_)
Sorted(S) == IF S = {} THEN << >>
             ELSE LET m == MinOf(S) IN <<m>> \o Sorted(S \ {m})

\* the grid points in increasing order
GridSeq == Sorted(UnitGrid)

\* the quantile of Beta(al, be) as the closest grid points around it: lo = hi
\* when the quantile is a grid point.  NaN for q outside [0, 1].
BetaPPF(q, al, be) ==
    IF IsNaN(q) \/ Lt(q, Num(0)) \/ Lt(Num(1), q) THEN [lo |-> NaN, hi |-> NaN]
    ELSE LET below == {i \in 1..Len(GridSeq) : Le(BetaCDF(GridSeq[i], al, be), q)}
             above == {i \in 1..Len(GridSeq) : Le(q, BetaCDF(GridSeq[i], al, be))}
         IN  [lo |-> GridSeq[CHOOSE i \in below : \A j \in below : j <= i],
              hi |-> GridSeq[CHOOSE i \in above : \A j \in above : i <= j]]

BetaISF(q, al, be) ==
    IF IsNaN(q) THEN [lo |-> NaN, hi |-> NaN] ELSE BetaPPF(Sub(Num(1), q), al, be)

BetaMedian(al, be) == BetaPPF(Norm(1, 2), al, be)

MsgInterval == "alpha must be between 0 and 1 inclusive"

MsgSize == "size does not match the broadcast shape of the parameters"

\* the standard normal CDF at the z-scores the model draws; the values at
\* 1 and 2 are rational approximations of 0.8413 and 0.9772
NormCdf(z) ==
    IF IsNaN(z) THEN NaN
    ELSE IF z.k = "inf" THEN (IF z.n > 0 THEN Num(1) ELSE Num(0))
    ELSE IF z = Num(0) THEN Norm(1, 2)
    ELSE IF z = Num(1) THEN Norm(27, 32)
    ELSE IF z = Num(-1) THEN Norm(5, 32)
    ELSE IF Lt(Num(0), z) THEN Norm(43, 44)
    ELSE Norm(1, 44)

\* the values a Beta variate takes in the model
DrawGrid == {Num(0), Norm(1, 2), Num(1)}

\* a seeded Beta variate: fixed by the seed, the index of the draw and the
\* shape parameters
Variate(seed, j, al, be) == Norm((7 * seed + 5 * j + al.n + 2 * be.n) % 3, 2)

(***************************************************************************)
(* The methods.  Each yields the object as the method leaves it and the    *)
(* value it returns.                                                       *)
(***************************************************************************)
Returns(o, value) == [obj |-> o, ret |-> value]

Raises(o, msg) == [obj |-> o, ret |-> [raised |-> msg]]

\* ndarray.clip(lo, hi)
Clip(x, lo, hi) ==
    IF IsNaN(x) THEN NaN
    ELSE IF Lt(x, lo) THEN lo
    ELSE IF Lt(hi, x) THEN hi
    ELSE x

\* unit clipping val - a before the division by range
unitClipFirst(o, val) ==
    LET x == ASub(Scalar(val), o.a)
    IN  ADiv([i \in 1..Len(x) |-> Clip(x[i], Num(0), Num(1))], range(o))

\* ((val - self.a) / self.range).clip(0, 1)
unit(o, val) ==
    LET x == ADiv(ASub(Scalar(val), o.a), range(o))
    IN  [i \in 1..Len(x) |-> Clip(x[i], Num(0), Num(1))]

\* the Beta functions elementwise on x and the shape parameters
PDFs(x, o) == [i \in 1..Len(o.alpha) |-> BetaPDF(At(x, i), At(o.alpha, i), At(o.beta, i))]

CDFs(x, o) == [i \in 1..Len(o.alpha) |-> BetaCDF(At(x, i), At(o.alpha, i), At(o.beta, i))]

SFs(x, o) == [i \in 1..Len(o.alpha) |-> BetaSF(At(x, i), At(o.alpha, i), At(o.beta, i))]

PPFs(q, o) == [i \in 1..Len(o.alpha) |-> BetaPPF(q, At(o.alpha, i), At(o.beta, i))]

ISFs(q, o) == [i \in 1..Len(o.alpha) |-> BetaISF(q, At(o.alpha, i), At(o.beta, i))]

\* np.log elementwise
Logs(x) == [i \in 1..Len(x) |-> LogN(x[i])]

\* a located quantile times range plus a
Rescale(o, qs) ==
    [i \in 1..Len(qs) |->
        [lo |-> Add(Mul(qs[i].lo, At(range(o), i)), At(o.a, i)),
         hi |-> Add(Mul(qs[i].hi, At(range(o), i)), At(o.a, i))]]

median(o) ==
    Returns(o, Rescale(o, [i \in 1..Len(o.alpha) |-> BetaMedian(o.alpha[i], o.beta[i])]))

\* size variates per call; with array parameters size has to be their shape
\* rvs rescaling by range without adding a
rvsNoShift(o, size, draws) ==
    IF Len(o.alpha) > 1 /\ size # Len(o.alpha) THEN Raises(o, MsgSize)
    ELSE Returns(o, [j \in 1..size |-> Mul(draws[j], At(range(o), j))])

rvs(o, size, draws) ==
    IF Len(o.alpha) > 1 /\ size # Len(o.alpha) THEN Raises(o, MsgSize)
    ELSE Returns(o, [j \in 1..size |->
                        Add(Mul(draws[j], At(range(o), j)), At(o.a, j))])

pdf(o, val) == Returns(o, ADiv(PDFs(unit(o, val), o), range(o)))

logpdf(o, val) == Returns(o, Logs(pdf(o, val).ret))

\* cdf rescaled by range as pdf is
cdfScaled(o, val) == Returns(o, ADiv(CDFs(unit(o, val), o), range(o)))

cdf(o, val) == Returns(o, CDFs(unit(o, val), o))

sf(o, val) == Returns(o, SFs(unit(o, val), o))

logsf(o, val) == Returns(o, Logs(SFs(unit(o, val), o)))

\* ppf returning the Beta quantile without rescaling it
ppfUnscaled(o, val) == Returns(o, PPFs(val, o))

ppf(o, val) == Returns(o, Rescale(o, PPFs(val, o)))

isf(o, val) == Returns(o, Rescale(o, ISFs(val, o)))

logcdf(o, val) == Returns(o, Logs(cdf(o, val).ret))

\* stats storing the mean it returns shifted by a
statsStoring(o) ==
    [obj |-> [o EXCEPT !.mean = AAdd(o.mean, o.a)],
     ret |-> [mean |-> o.mean, var |-> o.var, skewness |-> o.skew, kurtosis |-> o.kurt]]

stats(o) ==
    Returns(o, [mean |-> o.mean, var |-> o.var, skewness |-> o.skew, kurtosis |-> o.kurt])

\* interval returning its two endpoints in the other order
intervalSwapped(o, alpha) ==
    IF IsNaN(alpha) \/ Lt(alpha, Num(0)) \/ Lt(Num(1), alpha) THEN Raises(o, MsgInterval)
    ELSE LET half == Norm(1, 2)
             q1 == Mul(Sub(Num(1), alpha), half)
             q2 == Mul(Add(Num(1), alpha), half)
         IN  Returns(o, <<Rescale(o, PPFs(q2, o)), Rescale(o, PPFs(q1, o))>>)

interval(o, alpha) ==
    IF IsNaN(alpha) \/ Lt(alpha, Num(0)) \/ Lt(Num(1), alpha) THEN Raises(o, MsgInterval)
    ELSE LET half == Norm(1, 2)
             q1 == Mul(Sub(Num(1), alpha), half)
             q2 == Mul(Add(Num(1), alpha), half)
         IN  Returns(o, <<Rescale(o, PPFs(q1, o)),
                          Rescale(o, PPFs(q2, o))>>)

\* ci taking the coverage to be the one-sided probability norm_dist.cdf(z)
ciOneSided(o, z) == interval(o, NormCdf(z))

ci(o, z) == interval(o, Sub(NormCdf(z), NormCdf(Neg(z))))

repr(o) ==
    Returns(o, <<"PERT", "a=", o.a, "b=", o.b, "c=", o.c, "lamb=", o.lamb,
                 "alpha=", o.alpha, "beta=", o.beta, "mean=", o.mean,
                 "var=", o.var, "skew=", o.skew, "kurt=", o.kurt>>)

(***************************************************************************)
(* Calls of the methods on the instance the caller holds.                  *)
(***************************************************************************)
\* the instances on which the Beta functions are computed exactly
Exact(o) ==
    /\ IsSet(o.alpha) /\ IsSet(o.beta)
    /\ \A i \in 1..Len(o.alpha) : IsIntShape(o.alpha[i]) /\ IsIntShape(o.beta[i])
    /\ \A i \in 1..Len(o.a) : IsFinite(o.a[i]) /\ o.a[i].d = 1
    /\ \A i \in 1..Len(o.c) : IsFinite(o.c[i]) /\ o.c[i].d = 1

\* the query points: the integers from below the smallest min to above the
\* largest max
QVals(o) ==
    LET lo == MinOf({o.a[i] : i \in 1..Len(o.a)})
        hi == MaxOf({o.c[i] : i \in 1..Len(o.c)})
    IN  {Num(v) : v \in (lo.n - 1)..(hi.n + 1)}

\* the probabilities: those of the query points, one half, and two outside [0, 1]
Probs(o) ==
    {cdf(o, v).ret[1] : v \in QVals(o)} \cup {Norm(1, 2), Num(-1), Num(2)}

Coverages == {Num(0), Norm(1, 2), Num(1), Num(2)}

ZVals == {Num(0), Num(1), Num(2), Num(-1), PInf}

\* random_state: None, or a seed
NoSeed == -1

\* a call of a method: its result is held in ret until the caller drops it
Call(op, arg, r) ==
    /\ call = NoCall
    /\ call' = [op |-> op, arg |-> arg]
    /\ self' = r.obj
    /\ ret' = r.ret
    /\ UNCHANGED <<args, dist, err>>

Median == dist /\ Exact(self) /\ Call("median", NaN, median(self))

\* rvs not handing random_state to the Beta sampler
RvsUnseeded ==
    /\ dist /\ Exact(self)
    /\ \E size \in 1..MaxSize, seed \in {NoSeed} \cup 0..MaxSeed :
          IF Len(self.alpha) > 1 /\ size # Len(self.alpha)
          THEN Call("rvs", [size |-> size, seed |-> seed], rvs(self, size, << >>))
          ELSE \E draws \in [1..size -> DrawGrid] :
                  Call("rvs", [size |-> size, seed |-> seed], rvs(self, size, draws))

Rvs ==
    /\ dist /\ Exact(self)
    /\ \E size \in 1..MaxSize, seed \in {NoSeed} \cup 0..MaxSeed :
          IF Len(self.alpha) > 1 /\ size # Len(self.alpha)
          THEN Call("rvs", [size |-> size, seed |-> seed], rvs(self, size, << >>))
          ELSE \E draws \in [1..size -> DrawGrid] :
                  /\ seed # NoSeed =>
                       \A j \in 1..size :
                           draws[j] = Variate(seed, j, At(self.alpha, j), At(self.beta, j))
                  /\ Call("rvs", [size |-> size, seed |-> seed], rvs(self, size, draws))

Pdf == dist /\ Exact(self) /\ \E val \in QVals(self) : Call("pdf", val, pdf(self, val))

Logpdf == dist /\ Exact(self) /\ \E val \in QVals(self) : Call("logpdf", val, logpdf(self, val))

Cdf == dist /\ Exact(self) /\ \E val \in QVals(self) : Call("cdf", val, cdf(self, val))

Sf == dist /\ Exact(self) /\ \E val \in QVals(self) : Call("sf", val, sf(self, val))

Logsf == dist /\ Exact(self) /\ \E val \in QVals(self) : Call("logsf", val, logsf(self, val))

Ppf == dist /\ Exact(self) /\ \E val \in Probs(self) : Call("ppf", val, ppf(self, val))

Isf == dist /\ Exact(self) /\ \E val \in Probs(self) : Call("isf", val, isf(self, val))

Logcdf == dist /\ Exact(self) /\ \E val \in QVals(self) : Call("logcdf", val, logcdf(self, val))

Stats == dist /\ Call("stats", NaN, stats(self))

Interval ==
    dist /\ Exact(self) /\ \E alpha \in Coverages : Call("interval", alpha, interval(self, alpha))

Ci == dist /\ Exact(self) /\ \E z \in ZVals : Call("ci", z, ci(self, z))

Repr == dist /\ Call("repr", NaN, repr(self))

\* the caller is done with the result of the call, and may call again
Discard ==
    /\ call # NoCall
    /\ call' = NoCall
    /\ ret' = Unset
    /\ UNCHANGED <<args, self, dist, err>>

Query ==
    \/ Median \/ Rvs \/ Pdf \/ Logpdf \/ Cdf \/ Sf \/ Logsf
    \/ Ppf \/ Isf \/ Logcdf \/ Stats \/ Interval \/ Ci \/ Repr

Next == Construct \/ ConstructDefault \/ Query \/ Discard

Spec == Init /\ [][Next]_vars

(***************************************************************************)
(* The scalar-only specification: finite scalar arguments 0..MaxWide and   *)
(* lamb in 1..MaxLamb.                                                     *)
(***************************************************************************)
WideScalars == {Scalar(Num(v)) : v \in 0..MaxWide}

ConstructWide == ConstructFrom(WideScalars, {Num(l) : l \in 1..MaxLamb})

NextWide == ConstructWide \/ Stats \/ Repr \/ Discard

SpecWide == Init /\ [][NextWide]_vars

(***************************************************************************)
(* The properties.                                                         *)
(***************************************************************************)
Called == args # NoArgs

Elems(x) == {x[i] : i \in 1..Len(x)}

AllFinite(r) ==
    IsFinite(r.lamb) /\ \A x \in Elems(r.a) \cup Elems(r.b) \cup Elems(r.c) : IsFinite(x)

Broadcastable(r) ==
    Compatible(r.a, r.b) /\ Compatible(r.b, r.c) /\ Compatible(r.a, r.c)

\* the broadcast shape of three broadcastable arguments
Shape(r) == BLen(r.a, IF Len(r.b) = 1 THEN r.c ELSE r.b)

Populated(o) ==
    /\ IsSet(o.a) /\ IsSet(o.b) /\ IsSet(o.c)
    /\ IsSet(o.alpha) /\ IsSet(o.beta)
    /\ IsSet(o.mean) /\ IsSet(o.var) /\ IsSet(o.skew) /\ IsSet(o.kurt)

\* the violations of the construction invariants, on the arguments
BadLamb(r) == Le(r.lamb, Num(0))

BadMin(r) == Compatible(r.b, r.a) /\ AnyLt(r.b, r.a)

BadMax(r) == Compatible(r.c, r.b) /\ AnyLt(r.c, r.b)

BadDiff(r) ==
    \/ Compatible(r.a, r.b) /\ AnyEq(r.a, r.b)
    \/ Compatible(r.b, r.c) /\ AnyEq(r.b, r.c)

MsgNonFinite == "Non-finite values present in inputs."

\* the error of the earliest violated check in the documented order
FirstViolation(r) ==
    IF ~AllFinite(r) THEN MsgNonFinite
    ELSE IF BadLamb(r) THEN MsgLamb
    ELSE IF BadMin(r) THEN MsgMin
    ELSE IF BadMax(r) THEN MsgMax
    ELSE IF BadDiff(r) THEN MsgDiff
    ELSE IF ~Broadcastable(r) THEN MsgBroadcast
    ELSE ""

Violations(r) ==
    {v \in 1..6 : \/ v = 1 /\ ~AllFinite(r)
                  \/ v = 2 /\ BadLamb(r)
                  \/ v = 3 /\ BadMin(r)
                  \/ v = 4 /\ BadMax(r)
                  \/ v = 5 /\ BadDiff(r)
                  \/ v = 6 /\ ~Broadcastable(r)}

\* C1: a constructor call that violates several construction invariants
\* raises exactly the error of the earliest violated check in the order
\* non-finite, lamb <= 0, mode < min, max < mode, equal values, shape
\* mismatch.
C1_FirstViolationWins ==
    (Called /\ Cardinality(Violations(args)) >= 2)
        => (err = FirstViolation(args) /\ ~dist)

\* the finite ones among min, mode and max are strictly increasing and lamb,
\* if finite, is positive
OtherwiseValid(r) ==
    /\ Broadcastable(r)
    /\ IsFinite(r.lamb) => Lt(Num(0), r.lamb)
    /\ \A i \in 1..Shape(r) :
          LET a == At(r.a, i)
              b == At(r.b, i)
              c == At(r.c, i)
          IN  /\ (IsFinite(a) /\ IsFinite(b)) => Lt(a, b)
              /\ (IsFinite(b) /\ IsFinite(c)) => Lt(b, c)
              /\ (IsFinite(a) /\ IsFinite(c)) => Lt(a, c)

\* C2: a constructor call in which one of min, mode, max or lamb is NaN or
\* infinite, the other arguments being valid, fails with the non-finite
\* error and produces no instance.
C2_NonFiniteRejected ==
    (Called /\ ~AllFinite(args) /\ OtherwiseValid(args))
        => (err = MsgNonFinite /\ ~dist)

\* C3: with finite arguments, construction fails whenever lamb <= 0, or
\* mode < min, max < mode, min = mode or mode = max holds for some element;
\* a call whose only violation is lamb <= 0 fails with the lamb message.
C3_InvalidRejected ==
    (Called /\ AllFinite(args)) =>
        /\ (BadLamb(args) \/ BadMin(args) \/ BadMax(args) \/ BadDiff(args))
              => (err # "" /\ ~dist)
        /\ (Violations(args) = {2}) => err = MsgLamb

\* array arguments of which one element has mode < min and another element
\* is valid: the construction failed with the min message
C3_Witness ==
    /\ Called /\ AllFinite(args) /\ Broadcastable(args) /\ Shape(args) >= 2
    /\ \E i \in 1..Shape(args) : Lt(At(args.b, i), At(args.a, i))
    /\ \E j \in 1..Shape(args) :
          Lt(At(args.a, j), At(args.b, j)) /\ Lt(At(args.b, j), At(args.c, j))
    /\ err = MsgMin /\ ~dist

\* C4: arguments whose shapes are not mutually broadcastable make the
\* construction fail with an error, whichever pair mismatches.
C4_ShapeMismatchRejected ==
    (Called /\ ~Broadcastable(args)) => (err # "" /\ ~dist)

\* min and max of different lengths with a scalar mode between them: the
\* checks of __init__ pass and build raises
C4_Witness ==
    /\ Called /\ ~Compatible(args.a, args.c) /\ Len(args.b) = 1
    /\ CheckParams(args) = ""
    /\ err = MsgBroadcast /\ ~dist

\* finite arguments with lamb > 0 and min < mode < max elementwise
Valid(r) ==
    /\ AllFinite(r) /\ Broadcastable(r) /\ Lt(Num(0), r.lamb)
    /\ \A i \in 1..Shape(r) :
          Lt(At(r.a, i), At(r.b, i)) /\ Lt(At(r.b, i), At(r.c, i))

\* C5: a constructor call either raises and the caller holds no instance,
\* or returns an instance with every attribute assigned; it returns one for
\* every valid argument list.
C5_AtomicConstruction ==
    Called =>
        /\ \/ err # "" /\ ~dist
           \/ err = "" /\ dist /\ Populated(self)
        /\ Valid(args) => dist

\* build raised after __init__ stored the arguments: the object has no
\* derived attribute and the caller does not hold it
C5_Witness ==
    /\ Called /\ err = MsgBroadcast /\ ~dist
    /\ IsSet(self.a) /\ ~IsSet(self.alpha) /\ ~IsSet(self.kurt)

\* C6: on an instance, after any sequence of method calls, a, b, c and lamb
\* are the constructor arguments and alpha, beta, range, mean, var, skew and
\* kurt are the values derived from them; stats returns the stored moments.
C6_QueriesKeepFields ==
    dist =>
        /\ self.a = args.a /\ self.b = args.b /\ self.c = args.c
        /\ self.lamb = args.lamb
        /\ self = init(args.a, args.b, args.c, args.lamb).obj
        /\ range(self) = ASub(args.c, args.a)
        /\ call.op = "stats" =>
              ret = [mean |-> meanOf(args), var |-> self.var,
                     skewness |-> self.skew, kurtosis |-> self.kurt]

C6_Witness ==
    /\ dist /\ call.op = "stats" /\ Valid(args) /\ Shape(args) >= 2
    /\ ret.mean = self.mean

\* C7: on every instance built from valid arguments, alpha and beta are
\* 1 + lamb (mode - min) / (max - min) and 1 + lamb (max - mode) / (max - min),
\* both greater than 1, and min <= mean <= max.
C7_ShapeAndMeanBounds ==
    (dist /\ Valid(args)) =>
        \A i \in 1..Shape(args) :
            LET a == At(self.a, i).n
                b == At(self.b, i).n
                c == At(self.c, i).n
                l == self.lamb.n
            IN  /\ self.alpha[i] = Norm((c - a) + l * (b - a), c - a)
                /\ self.beta[i] = Norm((c - a) + l * (c - b), c - a)
                /\ self.mean[i] = Norm(a + l * b + c, 2 + l)
                /\ Lt(Num(1), self.alpha[i]) /\ Lt(Num(1), self.beta[i])
                /\ Le(At(self.a, i), self.mean[i])
                /\ Le(self.mean[i], At(self.c, i))

C7_Witness ==
    /\ dist /\ Valid(args)
    /\ self.alpha[1].d # 1 /\ self.mean[1].d # 1

\* C8: when mode is the midpoint of min and max, alpha = beta = 1 + lamb/2,
\* mean = mode, skew = 0 and var = (max - min)^2 / (4 (lamb + 3)); min = 0,
\* mode = 5, max = 10, lamb = 4 gives alpha = beta = 3, mean = 5,
\* var = 25/7, skew = 0 and range = 10.
C8_SymmetricCase ==
    (dist /\ Valid(args)) =>
        /\ \A i \in 1..Shape(args) :
              LET a == At(self.a, i).n
                  b == At(self.b, i).n
                  c == At(self.c, i).n
                  l == self.lamb.n
              IN  (2 * b = a + c) =>
                      /\ self.alpha[i] = Norm(2 + l, 2)
                      /\ self.beta[i] = Norm(2 + l, 2)
                      /\ self.mean[i] = Num(b)
                      /\ self.skew[i] = SFin(0, Num(0))
                      /\ self.var[i] = Norm((c - a) * (c - a), 4 * (l + 3))
        /\ (args.a = <<Num(0)>> /\ args.b = <<Num(5)>> /\ args.c = <<Num(10)>>
                /\ args.lamb = Num(4)) =>
              /\ self.alpha = <<Num(3)>> /\ self.beta = <<Num(3)>>
              /\ self.mean = <<Num(5)>> /\ self.var = <<Norm(25, 7)>>
              /\ self.skew = <<SFin(0, Num(0))>> /\ range(self) = <<Num(10)>>

C8_Witness ==
    /\ dist
    /\ args.a = <<Num(0)>> /\ args.b = <<Num(5)>> /\ args.c = <<Num(10)>>
    /\ args.lamb = Num(4)
    /\ self.var = <<Norm(25, 7)>>

\* C9: cdf is 0 at and below min, 1 at and above max whatever the range,
\* and non-decreasing in val; sf is 1 at and below min and 0 at and above max.
C9_CdfClipped ==
    /\ call.op = "cdf" =>
          \A i \in 1..Len(ret) :
              /\ Le(call.arg, At(self.a, i)) => ret[i] = Num(0)
              /\ Le(At(self.c, i), call.arg) => ret[i] = Num(1)
              /\ \A w \in QVals(self) :
                    Le(w, call.arg) => Le(cdf(self, w).ret[i], ret[i])
    /\ call.op = "sf" =>
          \A i \in 1..Len(ret) :
              /\ Le(call.arg, At(self.a, i)) => ret[i] = Num(1)
              /\ Le(At(self.c, i), call.arg) => ret[i] = Num(0)
    /\ (call.op = "cdf" /\ args.a = <<Num(0)>> /\ args.b = <<Num(1)>>
            /\ args.c = <<Num(3)>> /\ call.arg = Num(1)) => ret = <<Norm(11, 27)>>

C9_Witness ==
    /\ call.op = "cdf" /\ Lt(self.c[1], call.arg)
    /\ range(self)[1] # Num(1) /\ self.alpha # self.beta
    /\ ret[1] = Num(1)

\* C10: pdf at a point below min is pdf at min and at a point above max is
\* pdf at max; the density is the Beta density at the clipped unit point
\* divided by range.
C10_PdfClipped ==
    call.op = "pdf" =>
        /\ \A i \in 1..Len(ret) :
              LET a == At(self.a, i)
                  c == At(self.c, i)
                  r == Sub(c, a)
                  x == Clip(Div(Sub(call.arg, a), r), Num(0), Num(1))
              IN  /\ Lt(call.arg, a) => ret[i] = pdf(self, a).ret[i]
                  /\ Lt(c, call.arg) => ret[i] = pdf(self, c).ret[i]
                  /\ Mul(ret[i], r) = BetaDensity(x, self.alpha[i], self.beta[i])
        /\ (args.a = <<Num(0)>> /\ args.b = <<Num(1)>> /\ args.c = <<Num(2)>>
                /\ args.lamb = Num(4) /\ call.arg = Num(1)) => ret = <<Norm(15, 16)>>

C10_Witness ==
    /\ call.op = "pdf" /\ Lt(self.c[1], call.arg)
    /\ Lt(Num(1), range(self)[1])
    /\ ret[1] = pdf(self, self.c[1]).ret[1]

\* val lies strictly between min and max of element i
Inside(o, val, i) == Lt(At(o.a, i), val) /\ Lt(val, At(o.c, i))

\* C11: for every x strictly inside (min, max), ppf(cdf(x)) = x and
\* isf(sf(x)) = x: ppf and isf called on the probability cdf or sf gives at
\* x return x.
C11_RoundTrip ==
    /\ call.op = "ppf" =>
          \A x \in QVals(self) : \A i \in 1..Len(ret) :
              (Inside(self, x, i) /\ call.arg = cdf(self, x).ret[i])
                  => ret[i] = [lo |-> x, hi |-> x]
    /\ call.op = "isf" =>
          \A x \in QVals(self) : \A i \in 1..Len(ret) :
              (Inside(self, x, i) /\ call.arg = sf(self, x).ret[i])
                  => ret[i] = [lo |-> x, hi |-> x]

\* ppf called on cdf(x) for an x strictly inside (min, max), min not 0 and
\* range not 1, returned x
C11_Witness ==
    /\ call.op = "ppf" /\ self.a[1] # Num(0) /\ range(self)[1] # Num(1)
    /\ \E x \in QVals(self) :
          /\ Inside(self, x, 1) /\ call.arg = cdf(self, x).ret[1]
          /\ ret[1] = [lo |-> x, hi |-> x]

\* C12: ci(z) returns exactly what interval returns for the coverage
\* Phi(z) - Phi(-z), Phi the standard normal CDF, and changes no attribute.
C12_CiIsInterval ==
    call.op = "ci" =>
        /\ ret = interval(self, Sub(NormCdf(call.arg), NormCdf(Neg(call.arg)))).ret
        /\ self = init(args.a, args.b, args.c, args.lamb).obj

\* ci(1) on an asymmetric instance returned the interval of coverage
\* Phi(1) - Phi(-1)
C12_Witness ==
    /\ call.op = "ci" /\ call.arg = Num(1) /\ self.alpha # self.beta
    /\ ret = interval(self, Sub(NormCdf(Num(1)), NormCdf(Num(-1)))).ret
    /\ ret # interval(self, NormCdf(Num(1))).ret

\* a coverage in [0, 1]
IsCoverage(alpha) == ~IsNaN(alpha) /\ Le(Num(0), alpha) /\ Le(alpha, Num(1))

\* the result <<low, high>> of interval for the coverage alpha: in every
\* element low is not above high, both lie in [min, max], and they are the
\* Beta quantiles of (1 - alpha)/2 and (1 + alpha)/2 times range plus min
GoodInterval(o, alpha, res) ==
    \A i \in 1..Len(o.alpha) :
        LET low == res[1][i]
            high == res[2][i]
            a == At(o.a, i)
            c == At(o.c, i)
            r == Sub(c, a)
            q1 == BetaPPF(Mul(Sub(Num(1), alpha), Norm(1, 2)), o.alpha[i], o.beta[i])
            q2 == BetaPPF(Mul(Add(Num(1), alpha), Norm(1, 2)), o.alpha[i], o.beta[i])
        IN  /\ Le(low.lo, high.lo) /\ Le(low.hi, high.hi)
            /\ Le(a, low.lo) /\ Le(low.hi, c)
            /\ Le(a, high.lo) /\ Le(high.hi, c)
            /\ low = [lo |-> Add(Mul(q1.lo, r), a), hi |-> Add(Mul(q1.hi, r), a)]
            /\ high = [lo |-> Add(Mul(q2.lo, r), a), hi |-> Add(Mul(q2.hi, r), a)]

\* C13: for every coverage in [0, 1], interval returns low <= high, both
\* within [min, max], each the Beta interval endpoint times range plus min;
\* so does ci(z) for every z >= 0.
C13_IntervalOrdered ==
    /\ (call.op = "interval" /\ IsCoverage(call.arg))
           => GoodInterval(self, call.arg, ret)
    /\ (call.op = "ci" /\ ~IsNaN(call.arg) /\ Le(Num(0), call.arg))
           => GoodInterval(self, Sub(NormCdf(call.arg), NormCdf(Neg(call.arg))), ret)

\* interval(1/2) on an instance with min not 0: low is located below high
C13_Witness ==
    /\ call.op = "interval" /\ call.arg = Norm(1, 2) /\ self.a[1] # Num(0)
    /\ Le(ret[1][1].hi, ret[2][1].lo) /\ Lt(ret[1][1].lo, ret[2][1].hi)

\* size is one the Beta sampler accepts for the shape of the parameters
SizeFits(o, size) == Len(o.alpha) = 1 \/ size = Len(o.alpha)

\* what rvs(size, random_state = seed) returns on a freshly constructed
\* distribution of the parameters r
SeededSample(r, size, seed) ==
    LET o == init(r.a, r.b, r.c, r.lamb).obj
    IN  rvs(o, size,
            [j \in 1..size |-> Variate(seed, j, At(o.alpha, j), At(o.beta, j))]).ret

\* C14: rvs with a seed is determined by the parameters of the distribution,
\* size and random_state: whatever was called before, it returns what it
\* returns on a fresh distribution of the same parameters.
C14_SeededRvsDeterministic ==
    (call.op = "rvs" /\ call.arg.seed # NoSeed /\ SizeFits(self, call.arg.size))
        => ret = SeededSample(args, call.arg.size, call.arg.seed)

\* a seeded sample of two variates that differ
C14_Witness ==
    /\ call.op = "rvs" /\ call.arg.seed # NoSeed /\ call.arg.size = 2
    /\ SizeFits(self, 2)
    /\ ret[1] # ret[2]
    /\ ret = SeededSample(args, 2, call.arg.seed)

\* C15: every value rvs returns, for every size and random_state, lies in
\* [min, max] inclusive, and is a Beta variate u of [0, 1] times range plus
\* min.
C15_SamplesInSupport ==
    (call.op = "rvs" /\ SizeFits(self, call.arg.size)) =>
        /\ Len(ret) = call.arg.size
        /\ \A j \in 1..Len(ret) :
              /\ Le(At(self.a, j), ret[j]) /\ Le(ret[j], At(self.c, j))
              /\ \E u \in DrawGrid :
                    ret[j] = Add(Mul(u, Sub(At(self.c, j), At(self.a, j))), At(self.a, j))

\* an unseeded sample holding both max and min, min not 0 and range not 1
C15_Witness ==
    /\ call.op = "rvs" /\ call.arg.seed = NoSeed /\ call.arg.size = 2
    /\ SizeFits(self, 2) /\ Len(self.alpha) = 1
    /\ self.a[1] # Num(0) /\ range(self)[1] # Num(1)
    /\ ret[1] = self.c[1] /\ ret[2] = self.a[1]
====
